---- MODULE Spec2Model ----
(***************************************************************************)
(* Directory size scanner of vorta (src/vorta/utils.py):                   *)
(* FilePathInfoAsync, prepare_pattern, match, get_directory_size and       *)
(* get_path_datasize, run against a small POSIX file system.               *)
(*                                                                         *)
(* A Python str is a sequence of one-character strings, so that            *)
(* normpath, the fnmatch translation, lstrip/rstrip/strip, splitlines and  *)
(* str() are computed character by character.                              *)
(***************************************************************************)
EXTENDS Integers, Sequences, FiniteSets, TLC

VARIABLES fs, th, emitted

vars == <<fs, th, emitted>>

(***************************************************************************)
(* Strings                                                                 *)
(***************************************************************************)

\* os.path.sep on the POSIX platforms the scanner is modelled for.
sep == "/"

\* The characters str.strip() removes that occur in the modelled inputs.
Whitespace == {" ", "\n"}

RECURSIVE lstrip(_, _)
\* str.lstrip(chars): drop the leading characters that are in chars.
lstrip(s, chars) ==
    IF s # <<>> /\ Head(s) \in chars THEN lstrip(Tail(s), chars) ELSE s

RECURSIVE rstrip(_, _)
\* str.rstrip(chars): drop the trailing characters that are in chars.
rstrip(s, chars) ==
    IF s # <<>> /\ s[Len(s)] \in chars
    THEN rstrip(SubSeq(s, 1, Len(s) - 1), chars)
    ELSE s

\* str.strip(): drop leading and trailing whitespace.
strip(s) == rstrip(lstrip(s, Whitespace), Whitespace)

\* str.endswith(c) for a one-character suffix.
endswith(s, c) == s # <<>> /\ s[Len(s)] = c

\* str.startswith(p).
startswith(s, p) == Len(s) >= Len(p) /\ SubSeq(s, 1, Len(p)) = p

RECURSIVE split(_, _)
\* str.split(c): the pieces between the occurrences of c, empty ones kept.
split(s, c) ==
    IF \A i \in 1..Len(s) : s[i] # c
    THEN <<s>>
    ELSE LET k == CHOOSE i \in 1..Len(s) :
                      s[i] = c /\ \A j \in 1..(i - 1) : s[j] # c
         IN <<SubSeq(s, 1, k - 1)>> \o split(SubSeq(s, k + 1, Len(s)), c)

RECURSIVE join(_, _)
\* c.join(parts).
join(parts, c) ==
    IF parts = <<>> THEN <<>>
    ELSE IF Len(parts) = 1 THEN parts[1]
    ELSE parts[1] \o <<c>> \o join(Tail(parts), c)

\* str.splitlines(): the lines of s; a final line break adds no empty line.
splitlines(s) ==
    IF s = <<>> THEN <<>>
    ELSE IF endswith(s, "\n") THEN split(SubSeq(s, 1, Len(s) - 1), "\n")
    ELSE split(s, "\n")

Digit(d) ==
    CASE d = 0 -> "0" [] d = 1 -> "1" [] d = 2 -> "2" [] d = 3 -> "3"
      [] d = 4 -> "4" [] d = 5 -> "5" [] d = 6 -> "6" [] d = 7 -> "7"
      [] d = 8 -> "8" [] d = 9 -> "9"

RECURSIVE str(_)
\* str(n) of a non-negative int: its decimal digits, no leading zero.
str(n) == IF n < 10 THEN <<Digit(n)>> ELSE str(n \div 10) \o <<Digit(n % 10)>>

(***************************************************************************)
(* os.path.normpath (posixpath)                                            *)
(***************************************************************************)

RECURSIVE NormComps(_, _, _)
\* The loop of posixpath.normpath over the components: "" and "." are
\* dropped, ".." pops the previous component unless there is none to pop.
NormComps(comps, new_comps, initial_slashes) ==
    IF comps = <<>> THEN new_comps
    ELSE LET comp == Head(comps)
             dotdot == <<".", ".">>
         IN IF comp = <<>> \/ comp = <<".">>
            THEN NormComps(Tail(comps), new_comps, initial_slashes)
            ELSE IF comp # dotdot
                    \/ (initial_slashes = 0 /\ new_comps = <<>>)
                    \/ (new_comps # <<>> /\ new_comps[Len(new_comps)] = dotdot)
            THEN NormComps(Tail(comps), Append(new_comps, comp), initial_slashes)
            ELSE IF new_comps # <<>>
            THEN NormComps(Tail(comps),
                           SubSeq(new_comps, 1, Len(new_comps) - 1),
                           initial_slashes)
            ELSE NormComps(Tail(comps), new_comps, initial_slashes)

normpath(path) ==
    IF path = <<>> THEN <<".">>
    ELSE LET initial_slashes ==
                 IF ~startswith(path, <<sep>>) THEN 0
                 ELSE IF startswith(path, <<sep, sep>>)
                         /\ ~startswith(path, <<sep, sep, sep>>) THEN 2
                 ELSE 1
             comps == NormComps(split(path, sep), <<>>, initial_slashes)
             joined == join(comps, sep)
             res == IF initial_slashes = 2 THEN <<sep, sep>> \o joined
                    ELSE IF initial_slashes = 1 THEN <<sep>> \o joined
                    ELSE joined
         IN IF res = <<>> THEN <<".">> ELSE res

(***************************************************************************)
(* prepare_pattern and match                                               *)
(***************************************************************************)

RECURSIVE fnmatch(_, _)
\* re.compile(fnmatch.translate(pat)).match(s): the whole of s must match;
\* "*" is any run of characters (separators included), "?" is exactly one
\* character, any other character is itself.  The modelled patterns hold no
\* "[", so no character class arises.
fnmatch(pat, s) ==
    IF pat = <<>> THEN s = <<>>
    ELSE IF Head(pat) = "*"
         THEN fnmatch(Tail(pat), s) \/ (s # <<>> /\ fnmatch(pat, Tail(s)))
    ELSE IF Head(pat) = "?"
         THEN s # <<>> /\ fnmatch(Tail(pat), Tail(s))
    ELSE s # <<>> /\ Head(s) = Head(pat) /\ fnmatch(Tail(pat), Tail(s))

\* prepare_pattern with the branch for a trailing separator left out.
prepare_pattern_one_form(pattern) == lstrip(normpath(pattern) \o <<sep, "*">>, {sep})

\* prepare_pattern(pattern): the glob whose compiled form is returned.
prepare_pattern(pattern) ==
    LET p == IF endswith(pattern, sep)
             THEN rstrip(normpath(pattern), {sep}) \o <<sep, "*", sep>>
             ELSE normpath(pattern) \o <<sep, "*">>
    IN lstrip(p, {sep})

\* match(pattern, path).
match(pattern, path) == fnmatch(pattern, lstrip(path, {sep}) \o <<sep>>)

\* "for pattern in exclude_patterns: if match(...): is_excluded = True".
is_excluded(patterns, path) ==
    \E i \in 1..Len(patterns) : match(patterns[i], path)

(***************************************************************************)
(* The file system the scan reads                                          *)
(*                                                                         *)
(* fs is the sequence of directory entries, in the order os.scandir lists  *)
(* them.  An entry holds its absolute path, what lstat says it is (kind),  *)
(* and what os.stat(path) yields: err is "" and dev, ino, size are the     *)
(* st_dev, st_ino, st_size of the file the path resolves to, or err names  *)
(* the error os.stat raises.  Hard links are entries of one directory      *)
(* tree device with the same ino; a mounted file system has another dev    *)
(* and numbers its inodes on its own.                                      *)
(***************************************************************************)

\* Largest inode number a file system of the model hands out.
MaxIno == 2

\* How many FilePathInfoAsync threads run side by side.
NumWorkers == 2

Devs == {1, 2}

\* FileNotFoundError, PermissionError, and an OSError of another class.
Errnos == {"ENOENT", "EACCES", "EIO"}

\* st_size of the file (dev, ino).
st_size(dev, ino) ==
    (dev - 1) * 1000 + (CASE ino = 1 -> 100 [] ino = 2 -> 200 [] OTHER -> 50)

\* What os.stat yields through a symbolic link of the model: a file outside
\* the scanned tree.
SymTargetIno == MaxIno + 2

P_root == <<"/", "r", "o", "o", "t">>
N_a == <<"a", ".", "t", "x", "t">>
N_link == <<"l", "i", "n", "k", "_", "t", "o", "_", "a", ".", "t", "x", "t">>
N_b == <<"b">>
N_c == <<"c", ".", "t", "x", "t">>
N_d == <<"d", ".", "t", "x", "t">>
N_e == <<"e">>
N_f == <<"f", ".", "t", "x", "t">>

\* os.path.join(dir_path, file_name) for a relative file_name and a dir_path
\* that does not end with the separator.
path_join(dir_path, file_name) == dir_path \o <<sep>> \o file_name

P_a == path_join(P_root, N_a)
P_link == path_join(P_root, N_link)
P_b == path_join(P_root, N_b)
P_c == path_join(P_b, N_c)
P_d == path_join(P_b, N_d)
P_e == path_join(P_b, N_e)
P_f == path_join(P_e, N_f)

LastSep(p) == CHOOSE i \in 1..Len(p) : p[i] = sep /\ \A j \in (i + 1)..Len(p) : p[j] # sep

\* os.path.dirname and os.path.basename of an absolute path below "/".
dirname(p) == SubSeq(p, 1, LastSep(p) - 1)
basename(p) == SubSeq(p, LastSep(p) + 1, Len(p))

Dir(p, dev) ==
    [path |-> p, kind |-> "dir", isdir |-> TRUE, dev |-> dev, ino |-> 0, size |-> 0, err |-> ""]
File(p, dev, ino, err) ==
    [path |-> p, kind |-> "file", isdir |-> FALSE, dev |-> dev, ino |-> ino,
     size |-> st_size(dev, ino), err |-> err]
Symlink(p, isdir) ==
    [path |-> p, kind |-> "symlink", isdir |-> isdir, dev |-> 1, ino |-> SymTargetIno,
     size |-> 7, err |-> ""]

HasEntry(F, p) == \E i \in 1..Len(F) : F[i].path = p
Entry(F, p) == F[CHOOSE i \in 1..Len(F) : F[i].path = p]

\* An islink that never sees a link.
islink_never(F, p) == FALSE

\* os.path.islink(path).
islink(F, p) == HasEntry(F, p) /\ Entry(F, p).kind = "symlink"

\* QFileInfo(path).isDir(): true for a directory and for a link to one.
isDir(F, p) == HasEntry(F, p) /\ Entry(F, p).isdir

\* QFileInfo(path).size(): the size of the file the path resolves to, 0 when
\* there is none.
QFileInfo_size(F, p) == IF HasEntry(F, p) THEN Entry(F, p).size ELSE 0

\* QFileInfo(path).absoluteFilePath(): an absolute path is returned as given.
absoluteFilePath(p) == IF startswith(p, <<sep>>) THEN p ELSE <<sep>> \o p

\* os.scandir(top): the entries of the directory top, in listing order.
scandir(F, top) == SelectSeq(F, LAMBDA e : e.path # <<sep>> /\ dirname(e.path) = top)

RECURSIVE Map_basename(_)
Map_basename(es) ==
    IF es = <<>> THEN <<>> ELSE <<basename(Head(es).path)>> \o Map_basename(Tail(es))

RECURSIVE Map_path(_)
Map_path(es) ==
    IF es = <<>> THEN <<>> ELSE <<Head(es).path>> \o Map_path(Tail(es))

\* os.walk's nondirs: the names whose entry.is_dir() is false.
walk_nondirs(F, top) == Map_basename(SelectSeq(scandir(F, top), LAMBDA e : ~e.isdir))

\* os.walk's dirs, as it recurses into them: is_dir() entries that are not
\* symbolic links (followlinks is False), as full paths.
walk_recurse(F, top) ==
    Map_path(SelectSeq(scandir(F, top), LAMBDA e : e.isdir /\ e.kind # "symlink"))

(***************************************************************************)
(* One FilePathInfoAsync thread                                            *)
(*                                                                         *)
(* th[w] holds the thread's attributes (path, exclude_patterns, ret for    *)
(* size and files_count), the frame of its get_directory_size call, and    *)
(* where it stands (pc).  walked, pruned and log record what the call did: *)
(* the directories os.walk yielded, those it was told not to descend, and  *)
(* one event per file name of the inner loop.                              *)
(***************************************************************************)

RECURSIVE NonBlank(_)
\* The loop of __init__: strip each line, keep the non-empty ones.
NonBlank(lines) ==
    IF lines = <<>> THEN <<>>
    ELSE LET line == strip(Head(lines))
         IN IF line # <<>> THEN <<line>> \o NonBlank(Tail(lines))
            ELSE NonBlank(Tail(lines))

\* FilePathInfoAsync.__init__(path, exclude_patterns_str).
FilePathInfoAsync(path, exclude_patterns_str) ==
    [pc |-> "created",
     path |-> path,
     exclude_patterns |-> NonBlank(splitlines(exclude_patterns_str)),
     ret |-> <<>>,
     patterns |-> <<>>,
     data_size_filtered |-> 0,
     seen |-> {},
     seen_filtered |-> {},
     pending |-> <<>>,
     dir_path |-> <<>>,
     file_names |-> <<>>,
     walked |-> {},
     pruned |-> {},
     log |-> <<>>]

\* A get_path_datasize that puts a single file through the patterns too.
get_path_datasize_file_matched(F, t) ==
    LET pats == [i \in 1..Len(t.exclude_patterns) |-> prepare_pattern(t.exclude_patterns[i])]
    IN [t EXCEPT !.pc = "returned",
                 !.ret = IF is_excluded(pats, t.path) THEN <<0, 0>>
                         ELSE <<QFileInfo_size(F, t.path), 1>>]

\* get_path_datasize, the branch for a path that is not a directory.
get_path_datasize_file(F, t) ==
    [t EXCEPT !.pc = "returned", !.ret = <<QFileInfo_size(F, t.path), 1>>]

\* get_path_datasize, the branch for a directory, up to the for statement of
\* get_directory_size: the patterns are prepared, the sets are empty, os.walk
\* is about to yield dir_path.
get_directory_size_enter(F, t) ==
    [t EXCEPT !.pc = "walk",
              !.patterns = [i \in 1..Len(t.exclude_patterns) |->
                               prepare_pattern(t.exclude_patterns[i])],
              !.data_size_filtered = 0,
              !.seen = {},
              !.seen_filtered = {},
              !.pending = <<absoluteFilePath(t.path)>>]

\* Where the scan stands once file_names is what is left of the inner loop.
after_files(file_names) == IF file_names = <<>> THEN "walk" ELSE "files"

\* The iteration for an excluded directory without subdirectories.clear().
walk_excluded_descend(F, t) ==
    [t EXCEPT !.pending = walk_recurse(F, Head(t.pending)) \o Tail(t.pending),
              !.walked = @ \cup {Head(t.pending)},
              !.pruned = @ \cup {Head(t.pending)}]

\* One iteration of "for dir_path, subdirectories, file_names in os.walk":
\* an excluded directory is not descended (subdirectories.clear(); continue).
walk_excluded(F, t) ==
    [t EXCEPT !.pending = Tail(t.pending),
              !.walked = @ \cup {Head(t.pending)},
              !.pruned = @ \cup {Head(t.pending)}]

\* The same iteration for a directory no pattern matches: its files are
\* looped over next, and os.walk goes on into its subdirectories afterwards.
walk_directory(F, t) ==
    LET top == Head(t.pending)
    IN [t EXCEPT !.dir_path = top,
                 !.file_names = walk_nondirs(F, top),
                 !.pending = walk_recurse(F, top) \o Tail(t.pending),
                 !.walked = @ \cup {top},
                 !.pc = after_files(walk_nondirs(F, top))]

\* file_path of the current iteration of "for file_name in file_names".
file_path(t) == path_join(t.dir_path, Head(t.file_names))

Event(t, e, what, first, counted) ==
    [path |-> e.path, dev |-> e.dev, ino |-> e.ino, size |-> e.size, what |-> what,
     excluded |-> is_excluded(t.patterns, e.path), first |-> first, counted |-> counted]

\* "if os.path.islink(file_path): continue".
file_islink(F, t) ==
    [t EXCEPT !.file_names = Tail(t.file_names),
              !.pc = after_files(Tail(t.file_names)),
              !.log = Append(@, Event(t, Entry(F, file_path(t)), "islink", FALSE, FALSE))]

\* The try block without the test "stat.st_ino not in seen".
file_stat_unchecked(F, t) ==
    LET stat == Entry(F, file_path(t))
        excluded == is_excluded(t.patterns, file_path(t))
    IN [t EXCEPT !.file_names = Tail(t.file_names),
                 !.pc = after_files(Tail(t.file_names)),
                 !.seen = @ \cup {stat.ino},
                 !.data_size_filtered = IF ~excluded THEN @ + stat.size ELSE @,
                 !.seen_filtered = IF ~excluded THEN @ \cup {stat.ino} ELSE @,
                 !.log = Append(@, Event(t, stat, "stat", stat.ino \notin t.seen, ~excluded))]

\* The try block with the exclusion tested first: an excluded name does not
\* mark its inode as seen.
file_stat_excluded_unseen(F, t) ==
    LET stat == Entry(F, file_path(t))
        excluded == is_excluded(t.patterns, file_path(t))
        first == stat.ino \notin t.seen
        counted == first /\ ~excluded
    IN [t EXCEPT !.file_names = Tail(t.file_names),
                 !.pc = after_files(Tail(t.file_names)),
                 !.seen = IF counted THEN @ \cup {stat.ino} ELSE @,
                 !.data_size_filtered = IF counted THEN @ + stat.size ELSE @,
                 !.seen_filtered = IF counted THEN @ \cup {stat.ino} ELSE @,
                 !.log = Append(@, Event(t, stat, "stat", first, counted))]

\* The try block when os.stat succeeds.
file_stat(F, t) ==
    LET stat == Entry(F, file_path(t))
        excluded == is_excluded(t.patterns, file_path(t))
        first == stat.ino \notin t.seen
        counted == first /\ ~excluded
    IN [t EXCEPT !.file_names = Tail(t.file_names),
                 !.pc = after_files(Tail(t.file_names)),
                 !.seen = IF first THEN @ \cup {stat.ino} ELSE @,
                 !.data_size_filtered = IF counted THEN @ + stat.size ELSE @,
                 !.seen_filtered = IF counted THEN @ \cup {stat.ino} ELSE @,
                 !.log = Append(@, Event(t, stat, "stat", first, counted))]

\* An except clause that names FileNotFoundError alone.
caught_not_found_only(err) == err = "ENOENT"

\* "except (FileNotFoundError, PermissionError): continue".
caught(err) == err \in {"ENOENT", "EACCES"}

file_stat_caught(F, t) ==
    [t EXCEPT !.file_names = Tail(t.file_names),
              !.pc = after_files(Tail(t.file_names)),
              !.log = Append(@, Event(t, Entry(F, file_path(t)), "skipped", FALSE, FALSE))]

\* Any other exception of os.stat leaves get_directory_size, get_path_datasize
\* and run.
file_stat_raised(F, t) ==
    [t EXCEPT !.pc = "raised",
              !.log = Append(@, Event(t, Entry(F, file_path(t)), "raised", FALSE, FALSE))]

\* "files_count_filtered = len(seen_filtered)" and the two returns, up to
\* the assignment of self.size and self.files_count in run.
get_directory_size_return(F, t) ==
    [t EXCEPT !.pc = "returned",
              !.ret = <<t.data_size_filtered, Cardinality(t.seen_filtered)>>]

\* The arguments of emit with size and count in each other's place.
signal_args_swapped(t) == <<t.path, str(t.ret[2]), str(t.ret[1])>>

\* The arguments of self.signal.emit in run.
signal_args(t) == <<t.path, str(t.ret[1]), str(t.ret[2])>>

\* Which step a thread takes next; "" when it has none left but emit.
step_of(F, t) ==
    CASE t.pc = "created" /\ ~isDir(F, t.path) -> "file"
      [] t.pc = "created" /\ isDir(F, t.path) -> "enter"
      [] t.pc = "walk" /\ t.pending = <<>> -> "return"
      [] t.pc = "walk" /\ t.pending # <<>> /\ is_excluded(t.patterns, Head(t.pending)) -> "excluded"
      [] t.pc = "walk" /\ t.pending # <<>> /\ ~is_excluded(t.patterns, Head(t.pending)) -> "directory"
      [] t.pc = "files" /\ islink(F, file_path(t)) -> "islink"
      [] t.pc = "files" /\ ~islink(F, file_path(t)) /\ Entry(F, file_path(t)).err = "" -> "stat"
      [] t.pc = "files" /\ ~islink(F, file_path(t)) /\ caught(Entry(F, file_path(t)).err) -> "caught"
      [] t.pc = "files" /\ ~islink(F, file_path(t)) /\ Entry(F, file_path(t)).err # ""
            /\ ~caught(Entry(F, file_path(t)).err) -> "raised"
      [] OTHER -> ""

(***************************************************************************)
(* The inputs                                                              *)
(***************************************************************************)

\* What may stand at a file name: nothing, a symbolic link to a file, a
\* file with one of the inodes of its device, or a file os.stat fails on
\* (whose inode no other name has).
FileSlot(p, dev, inos, errnos) ==
    {<<>>, <<Symlink(p, FALSE)>>}
        \cup {<<File(p, dev, i, "")>> : i \in inos}
        \cup {<<File(p, dev, MaxIno + 1, err)>> : err \in errnos}

\* /root/b/e, with f.txt in it.
SubSubTrees(dev) ==
    {<<>>} \cup {<<Dir(P_e, dev), File(P_f, dev, i, "")>> : i \in 1..MaxIno}

\* /root/b: absent, a link to a directory, or a directory that is part of
\* the file system of /root (dev 1) or a mount point (dev 2).
SubTrees ==
    {<<>>, <<Symlink(P_b, TRUE)>>}
        \cup UNION {{<<Dir(P_b, dev)>> \o c \o e :
                        c \in FileSlot(P_c, dev, 1..MaxIno, Errnos) \ {<<Symlink(P_c, FALSE)>>},
                        e \in SubSubTrees(dev)} : dev \in Devs}

Trees ==
    {<<Dir(P_root, 1)>> \o a \o l \o sub :
        a \in FileSlot(P_a, 1, {1}, {}),
        l \in FileSlot(P_link, 1, 1..MaxIno, Errnos),
        sub \in SubTrees}

\* The trees of the two examples of the specification.
Tree_excluded_b ==
    <<Dir(P_root, 1), File(P_a, 1, 1, ""), Dir(P_b, 1), File(P_c, 1, 2, ""), File(P_d, 1, 3, "")>>
Tree_hardlink == <<Dir(P_root, 1), File(P_a, 1, 1, ""), File(P_link, 1, 1, "")>>

Reverse(F) == [i \in 1..Len(F) |-> F[Len(F) + 1 - i]]

\* Every tree, in both listing orders.
FileSystems == UNION {{F, Reverse(F)} : F \in Trees \cup {Tree_excluded_b}}

B_none == <<>>
B_relative == <<"b", "/">>
B_contents == <<"*", "/", "b", "/">>
B_contents_abs == P_b \o <<sep>>
B_subtree == <<"/", "r", "o", "o", "t", "/", ".", "/", "b">>
B_file == <<"*", "/">> \o N_a
B_lines == <<" ">> \o P_root \o <<"/", "?", "/", "e", " ", "\n", "\n", "*", "/">> \o N_c \o <<"\n">>
B_all == <<"*">>

\* (path, exclude_patterns_str) of a FilePathInfoAsync: a directory with each
\* of the pattern texts, and a path that is not a directory with none, with
\* its own path, and with a pattern that matches every path.
Inputs ==
    {<<P_root, b>> : b \in {B_none, B_relative, B_contents, B_contents_abs, B_subtree,
                            B_file, B_lines, B_all}}
        \cup {<<P_a, b>> : b \in {B_none, P_a, B_all}}

\* The trees and inputs of the threads that run side by side.
AsyncFileSystems ==
    {Tree_excluded_b, Reverse(Tree_hardlink),
     <<Dir(P_root, 1), Symlink(P_a, FALSE), File(P_link, 1, MaxIno + 1, "EACCES"), Dir(P_b, 2),
       File(P_c, 2, 1, ""), Dir(P_e, 2), File(P_f, 2, 1, "EIO")>>}
AsyncInputs == {<<P_root, B_none>>, <<P_root, B_contents>>, <<P_root, B_file>>, <<P_a, B_none>>}

(***************************************************************************)
(* The state machine                                                       *)
(***************************************************************************)

Init ==
    /\ fs \in FileSystems
    /\ \E in \in Inputs : th = [w \in {1} |-> FilePathInfoAsync(in[1], in[2])]
    /\ emitted = <<>>

InitAsync ==
    /\ fs \in AsyncFileSystems
    /\ th \in {[w \in 1..NumWorkers |-> FilePathInfoAsync(ins[w][1], ins[w][2])] :
                  ins \in [1..NumWorkers -> AsyncInputs]}
    /\ emitted = <<>>

\* Thread w takes the step named s, which changes its own state only.
Step(w, s, t) ==
    /\ step_of(fs, th[w]) = s
    /\ th' = [th EXCEPT ![w] = t]
    /\ UNCHANGED <<fs, emitted>>

RunFile(w) == Step(w, "file", get_path_datasize_file(fs, th[w]))
RunDirectory(w) == Step(w, "enter", get_directory_size_enter(fs, th[w]))
WalkExcluded(w) == Step(w, "excluded", walk_excluded(fs, th[w]))
WalkDirectory(w) == Step(w, "directory", walk_directory(fs, th[w]))
FileIsLink(w) == Step(w, "islink", file_islink(fs, th[w]))
FileStat(w) == Step(w, "stat", file_stat(fs, th[w]))
FileStatCaught(w) == Step(w, "caught", file_stat_caught(fs, th[w]))
FileStatRaised(w) == Step(w, "raised", file_stat_raised(fs, th[w]))
Return(w) == Step(w, "return", get_directory_size_return(fs, th[w]))

\* "self.signal.emit(self.path, str(self.size), str(self.files_count))".
Emit(w) ==
    /\ th[w].pc = "returned"
    /\ emitted' = Append(emitted, [from |-> w, args |-> signal_args(th[w])])
    /\ th' = [th EXCEPT ![w].pc = "emitted"]
    /\ UNCHANGED fs

\* The steps of thread w: run, from its first statement to the emit.
run(w) ==
    \/ RunFile(w)
    \/ RunDirectory(w)
    \/ WalkExcluded(w)
    \/ WalkDirectory(w)
    \/ FileIsLink(w)
    \/ FileStat(w)
    \/ FileStatCaught(w)
    \/ FileStatRaised(w)
    \/ Return(w)
    \/ Emit(w)

Next ==
    \/ \E w \in DOMAIN th : RunFile(w)
    \/ \E w \in DOMAIN th : RunDirectory(w)
    \/ \E w \in DOMAIN th : WalkExcluded(w)
    \/ \E w \in DOMAIN th : WalkDirectory(w)
    \/ \E w \in DOMAIN th : FileIsLink(w)
    \/ \E w \in DOMAIN th : FileStat(w)
    \/ \E w \in DOMAIN th : FileStatCaught(w)
    \/ \E w \in DOMAIN th : FileStatRaised(w)
    \/ \E w \in DOMAIN th : Return(w)
    \/ \E w \in DOMAIN th : Emit(w)

\* One thread, started once.
Spec == Init /\ [][Next]_vars

\* NumWorkers threads side by side.  Each is a QThread of its own, which the
\* operating system keeps scheduling until run returns or raises.
SpecAsync ==
    InitAsync /\ [][Next]_vars /\ \A w \in 1..NumWorkers : WF_vars(run(w))

\* The step named s, as a function of the thread's state.
apply_step(F, t, s) ==
    CASE s = "file" -> get_path_datasize_file(F, t)
      [] s = "enter" -> get_directory_size_enter(F, t)
      [] s = "excluded" -> walk_excluded(F, t)
      [] s = "directory" -> walk_directory(F, t)
      [] s = "islink" -> file_islink(F, t)
      [] s = "stat" -> file_stat(F, t)
      [] s = "caught" -> file_stat_caught(F, t)
      [] s = "raised" -> file_stat_raised(F, t)
      [] s = "return" -> get_directory_size_return(F, t)

RECURSIVE run_alone(_, _)
\* The thread's state when get_path_datasize has returned or raised, no other
\* thread having run: its steps taken one after the other.
run_alone(F, t) ==
    IF step_of(F, t) = "" THEN t ELSE run_alone(F, apply_step(F, t, step_of(F, t)))

(***************************************************************************)
(* What the properties speak of                                            *)
(***************************************************************************)

\* get_path_datasize has returned in thread t.
Returned(t) == t.pc \in {"returned", "emitted"}

\* The thread is past get_path_datasize, by a return or by an exception.
Ended(t) == t.pc \in {"returned", "emitted", "raised"}

\* The thread as __init__ left it.
Fresh(t) == [FilePathInfoAsync(t.path, <<>>) EXCEPT !.exclude_patterns = t.exclude_patterns]

\* Path p lies below directory d.
Under(p, d) == startswith(p, d \o <<sep>>)

\* The regular files of a tree, and the names that are symbolic links.
RegularFiles(F) == {i \in 1..Len(F) : F[i].kind = "file"}
Symlinks(F) == {i \in 1..Len(F) : F[i].kind = "symlink"}

\* The names of the physical file (dev, ino) in the tree.
NamesOf(F, dev, ino) == {i \in RegularFiles(F) : F[i].dev = dev /\ F[i].ino = ino}

NoHardlinks(F) == \A i \in RegularFiles(F) : NamesOf(F, F[i].dev, F[i].ino) = {i}

AllStatsSucceed(F) == \A i \in RegularFiles(F) : F[i].err = ""

RECURSIVE SumSizes(_, _)
SumSizes(F, I) ==
    IF I = {} THEN 0
    ELSE LET i == CHOOSE x \in I : TRUE IN F[i].size + SumSizes(F, I \ {i})

\* The events of a log at which a size was added to the total.
Counted(log) == {k \in 1..Len(log) : log[k].counted}

\* The events at which os.stat returned.
Stats(log) == {k \in 1..Len(log) : log[k].what = "stat"}

\* p, or a directory above p inside the scanned root, is matched by a pattern.
InExcludedTree(t, p) ==
    \E k \in Len(t.path)..Len(p) :
        /\ k = Len(p) \/ p[k + 1] = sep
        /\ is_excluded(t.patterns, SubSeq(p, 1, k))

\* The directories os.walk has yet to yield.
Range_pending(t) == {t.pending[k] : k \in 1..Len(t.pending)}

\* The totals of the frame are those of the events of the log.
LogAgrees(t) ==
    /\ t.data_size_filtered = SumSizes(t.log, Counted(t.log))
    /\ t.seen_filtered = {t.log[k].ino : k \in Counted(t.log)}
    /\ t.seen = {t.log[k].ino : k \in Stats(t.log)}
    /\ Counted(t.log) \subseteq Stats(t.log)

(***************************************************************************)
(* C1                                                                      *)
(***************************************************************************)

\* C1: a tree without hard links, every file of which os.stat can read,
\* scanned without exclude patterns, yields as file_count the number of its
\* regular files and as total_size_bytes the sum of their sizes.
C1_NoHardlinksAllCounted ==
    \A w \in DOMAIN th :
        LET t == th[w]
        IN (/\ Returned(t)
            /\ isDir(fs, t.path)
            /\ t.exclude_patterns = <<>>
            /\ NoHardlinks(fs)
            /\ AllStatsSucceed(fs))
           => t.ret = <<SumSizes(fs, RegularFiles(fs)), Cardinality(RegularFiles(fs))>>

(***************************************************************************)
(* C2                                                                      *)
(***************************************************************************)

\* C2: at every point of a scan and in its result, no physical file
\* (device and inode) has been counted twice: no two counting events are of
\* the same file, the total is the sum of the sizes of the counted events, the
\* counted set has one element per counting event, and the result is made
\* of these.
C2_PhysicalFileCountedOnce ==
    \A w \in DOMAIN th :
        LET t == th[w]
        IN /\ \A i, j \in Counted(t.log) :
                  (t.log[i].dev = t.log[j].dev /\ t.log[i].ino = t.log[j].ino) => i = j
           /\ LogAgrees(t)
           /\ Cardinality(t.seen_filtered) = Cardinality(Counted(t.log))
           /\ (Returned(t) /\ isDir(fs, t.path))
                 => t.ret = <<SumSizes(t.log, Counted(t.log)), Cardinality(Counted(t.log))>>

\* A finished scan that visited two names of one physical file, counted it at
\* the first and not at the second.
C2_Witness ==
    \E w \in DOMAIN th :
        LET t == th[w]
        IN /\ Returned(t)
           /\ \E i, j \in Stats(t.log) :
                 /\ i < j
                 /\ t.log[i].dev = t.log[j].dev /\ t.log[i].ino = t.log[j].ino
                 /\ t.log[i].counted /\ ~t.log[j].counted /\ ~t.log[j].excluded

(***************************************************************************)
(* C3                                                                      *)
(***************************************************************************)

\* C3: a file with exactly two hard-linked names, neither of them excluded nor
\* below an excluded directory, both readable by os.stat, is counted exactly
\* once in a finished scan of the tree.
C3_TwoNamesCountedOnce ==
    \A w \in DOMAIN th :
        LET t == th[w]
        IN (Returned(t) /\ isDir(fs, t.path)) =>
              \A i, j \in RegularFiles(fs) :
                  (/\ i # j
                   /\ NamesOf(fs, fs[i].dev, fs[i].ino) = {i, j}
                   /\ fs[i].err = "" /\ fs[j].err = ""
                   /\ ~InExcludedTree(t, fs[i].path) /\ ~InExcludedTree(t, fs[j].path))
                  => Cardinality({k \in Counted(t.log) :
                                     t.log[k].dev = fs[i].dev /\ t.log[k].ino = fs[i].ino}) = 1

(***************************************************************************)
(* C4                                                                      *)
(***************************************************************************)

IsExampleTree(F) == F = Tree_excluded_b \/ F = Reverse(Tree_excluded_b)

\* C4 as stated: root/{a.txt:100, b/c.txt:200, b/d.txt:50} scanned with the
\* pattern "b/" gives total 100 and count 1.
C4_RelativePatternExcludes ==
    \A w \in DOMAIN th :
        LET t == th[w]
        IN (/\ Returned(t)
            /\ IsExampleTree(fs)
            /\ t.path = P_root
            /\ t.exclude_patterns = <<B_relative>>)
           => t.ret = <<100, 1>>

\* The patterns with a trailing separator that name /root/b from the start of
\* the path: by its absolute path, or behind a wildcard.
NamesB(t) == t.exclude_patterns = <<B_contents>> \/ t.exclude_patterns = <<B_contents_abs>>

\* C4: a pattern with a trailing separator that names the subdirectory by
\* its absolute path ("/root/b/") or behind a wildcard ("*/b/") excludes
\* everything below the subdirectory and nothing else: b itself is walked and
\* not pruned, every name below b is excluded or pruned, no name outside b is,
\* and the example tree gives total 100 and count 1.  The pattern "b/" is
\* matched from the start of the absolute path, matches nothing below /root,
\* and the example tree gives total 350 and count 3.
C4_AnchoredPatternExcludesContents ==
    \A w \in DOMAIN th :
        LET t == th[w]
        IN (t.path = P_root /\ t.pc # "created") =>
              /\ NamesB(t) =>
                    /\ P_b \notin t.pruned
                    /\ \A d \in t.pruned : Under(d, P_b)
                    /\ \A k \in 1..Len(t.log) :
                          t.log[k].excluded <=> Under(t.log[k].path, P_b)
                    /\ \A k \in Counted(t.log) : ~Under(t.log[k].path, P_b)
                    /\ (Returned(t) /\ IsExampleTree(fs)) => t.ret = <<100, 1>>
              /\ t.exclude_patterns = <<B_relative>> =>
                    /\ t.pruned = {}
                    /\ \A k \in 1..Len(t.log) : ~t.log[k].excluded
                    /\ (Returned(t) /\ IsExampleTree(fs)) => t.ret = <<350, 3>>

\* The example tree, scanned to the end with "*/b/": b was walked, its two
\* files were visited and excluded, and the result is (100, 1).
C4_Witness ==
    \E w \in DOMAIN th :
        LET t == th[w]
        IN /\ Returned(t)
           /\ IsExampleTree(fs)
           /\ t.exclude_patterns = <<B_contents>>
           /\ P_b \in t.walked
           /\ Cardinality({k \in 1..Len(t.log) : t.log[k].excluded}) = 2
           /\ t.ret = <<100, 1>>

(***************************************************************************)
(* C5                                                                      *)
(***************************************************************************)

\* C5: once a directory's own path is matched by a pattern, nothing below it
\* is ever walked, looked at or counted: os.walk yields no directory below it,
\* the inner loop visits no name in it or below it, so none is given to
\* os.stat or added to a set or to the total.
C5_ExcludedSubtreePruned ==
    \A w \in DOMAIN th :
        LET t == th[w]
        IN /\ \A d \in t.walked : is_excluded(t.patterns, d) <=> d \in t.pruned
           /\ \A d \in t.pruned :
                 /\ \A x \in t.walked : ~Under(x, d)
                 /\ \A x \in Range_pending(t) : ~Under(x, d)
                 /\ \A k \in 1..Len(t.log) : ~Under(t.log[k].path, d)
                 /\ t.pc = "files" => t.dir_path # d /\ ~Under(t.dir_path, d)

\* A finished scan that pruned /root/b while b held a file and a directory
\* with a file, and counted a file elsewhere.
C5_Witness ==
    \E w \in DOMAIN th :
        LET t == th[w]
        IN /\ Returned(t)
           /\ P_b \in t.pruned
           /\ HasEntry(fs, P_c) /\ HasEntry(fs, P_f)
           /\ Counted(t.log) # {}

(***************************************************************************)
(* C6                                                                      *)
(***************************************************************************)

\* The tree with every symbolic link removed.
WithoutSymlinks(F) == SelectSeq(F, LAMBDA e : e.kind # "symlink")

\* What thread t did with the symbolic links, against r, the state the scan
\* of the same tree without its links ends in.
C6_Ignored(t, r) ==
    isDir(fs, t.path) =>
       /\ \A k \in 1..Len(t.log) :
             Entry(fs, t.log[k].path).kind = "symlink"
                => /\ t.log[k].what = "islink"
                   /\ ~t.log[k].first /\ ~t.log[k].counted
       /\ \A i \in Symlinks(fs) :
             /\ fs[i].path \notin t.walked
             /\ fs[i].path \notin Range_pending(t)
       /\ LogAgrees(t)
       /\ Ended(t) =>
             /\ t.ret = r.ret
             /\ t.seen = r.seen /\ t.seen_filtered = r.seen_filtered
             /\ t.pc = "raised" <=> r.pc = "raised"

ToVisit(F, t) ==
    {i \in 1..Len(F) : ~F[i].isdir /\ dirname(F[i].path) \in t.walked \ t.pruned}

\* C7: a name os.stat fails on with FileNotFoundError or PermissionError is
\* skipped: its event changes neither set nor the total, the scan goes on
\* through every remaining name and returns a result.  Any other error of
\* os.stat ends the scan there and then, without a result and without a
\* signal.
C7_StatErrors ==
    \A w \in DOMAIN th :
        LET t == th[w]
        IN /\ LogAgrees(t)
           /\ \A k \in 1..Len(t.log) :
                 LET e == Entry(fs, t.log[k].path)
                 IN /\ t.log[k].what = "skipped" <=> (e.kind = "file" /\ e.err \in {"ENOENT", "EACCES"})
                    /\ t.log[k].what = "raised" <=> (e.kind = "file" /\ e.err \notin {"", "ENOENT", "EACCES"})
                    /\ t.log[k].what \in {"skipped", "raised"} =>
                          /\ ~t.log[k].counted
                          /\ t.log[k].ino \notin t.seen
                          /\ t.log[k].ino \notin t.seen_filtered
                    /\ t.log[k].what = "raised" => (k = Len(t.log) /\ t.pc = "raised")
           /\ t.pc = "raised" =>
                 /\ t.log # <<>> /\ t.log[Len(t.log)].what = "raised"
                 /\ t.ret = <<>>
                 /\ \A k \in 1..Len(emitted) : emitted[k].from # w
           /\ (Returned(t) /\ isDir(fs, t.path)) =>
                 /\ t.ret = <<t.data_size_filtered, Cardinality(t.seen_filtered)>>
                 /\ \A i \in ToVisit(fs, t) : \E k \in 1..Len(t.log) : t.log[k].path = fs[i].path

\* A finished scan that skipped a name with PermissionError and counted a
\* file after it.
C7_Witness ==
    \E w \in DOMAIN th :
        LET t == th[w]
        IN /\ Returned(t)
           /\ \E i, j \in 1..Len(t.log) :
                 /\ i < j
                 /\ t.log[i].what = "skipped" /\ Entry(fs, t.log[i].path).err = "EACCES"
                 /\ t.log[j].counted

(***************************************************************************)
(* C8                                                                      *)
(***************************************************************************)

\* C8: for a path that is not a directory, get_path_datasize returns the
\* size of the file and a count of 1 under every list of patterns: nothing is
\* compiled, matched, walked or visited.
C8_SingleFile ==
    \A w \in DOMAIN th :
        LET t == th[w]
        IN (~isDir(fs, t.path) /\ t.pc # "created") =>
              /\ Returned(t)
              /\ t.ret = <<QFileInfo_size(fs, t.path), 1>>
              /\ HasEntry(fs, t.path) => t.ret[1] = Entry(fs, t.path).size
              /\ t.patterns = <<>>
              /\ t.walked = {} /\ t.pruned = {} /\ t.log = <<>>

\* /root/a.txt, a regular file of 100 bytes, measured under the pattern
\* "/root/a.txt", which matches it.
C8_Witness ==
    \E w \in DOMAIN th :
        LET t == th[w]
        IN /\ Returned(t)
           /\ t.path = P_a
           /\ HasEntry(fs, P_a) /\ Entry(fs, P_a).kind = "file"
           /\ t.exclude_patterns = <<P_a>>
           /\ is_excluded(<<prepare_pattern(P_a)>>, t.path)
           /\ t.ret = <<100, 1>>

(***************************************************************************)
(* C9                                                                      *)
(***************************************************************************)

\* The signals thread w has emitted.
EmittedBy(w) == {k \in 1..Len(emitted) : emitted[k].from = w}

\* What thread w has emitted, against r, the state its scan ends in when
\* it runs alone.
C9_OneShot(w, t, r) ==
    /\ Cardinality(EmittedBy(w)) <= 1
    /\ EmittedBy(w) # {} <=> t.pc = "emitted"
    /\ \A k \in EmittedBy(w) :
          /\ r.pc = "returned"
          /\ emitted[k].args = <<t.path, str(r.ret[1]), str(r.ret[2])>>
    /\ Ended(t) => (t.ret = r.ret /\ (t.pc = "raised" <=> r.pc = "raised"))
    /\ t.pc = "raised" => EmittedBy(w) = {}

\* The enabling condition of run(w): one of the steps of the scan, or the
\* emit.
HasNextStep(w) == step_of(fs, th[w]) # "" \/ th[w].pc = "returned"

\* C9: under every interleaving of the threads, each thread emits at most
\* once, only once its scan has returned and never when it raised, with its
\* own path and the decimal strings of the size and count its scan yields
\* when run alone; and a thread that has neither emitted nor raised has its
\* next step to take, so that a scan that returns is followed by the emit.
C9_OneShotNotification ==
    \A w \in DOMAIN th :
        /\ C9_OneShot(w, th[w], run_alone(fs, Fresh(th[w])))
        /\ th[w].pc \in {"emitted", "raised"} \/ HasNextStep(w)

\* Two threads have emitted, the second-numbered first, with different
\* results for different inputs.
C9_Witness ==
    /\ Len(emitted) >= 2
    /\ emitted[1].from = 2 /\ emitted[2].from = 1
    /\ th[1].pc = "emitted" /\ th[2].pc = "emitted"
    /\ th[1].log # <<>> /\ th[2].log # <<>>
    /\ emitted[1].args[2] # emitted[2].args[2]
    /\ emitted[1].args[2] # emitted[1].args[3]

(***************************************************************************)
(* C10                                                                     *)
(***************************************************************************)

\* C10: when the first name at which os.stat returns an inode is excluded,
\* the inode is marked seen and is not counted, and no later name of that
\* inode adds to the total or to the count, excluded or not.
C10_FirstNameWins ==
    \A w \in DOMAIN th :
        LET t == th[w]
        IN /\ LogAgrees(t)
           /\ \A k \in Stats(t.log) :
                 (/\ t.log[k].excluded
                  /\ \A j \in Stats(t.log) : j < k => t.log[j].ino # t.log[k].ino)
                 => /\ t.log[k].first /\ ~t.log[k].counted
                    /\ t.log[k].ino \in t.seen
                    /\ t.log[k].ino \notin t.seen_filtered
                    /\ \A m \in Stats(t.log) :
                          t.log[m].ino = t.log[k].ino => ~t.log[m].counted

\* A finished scan in which an excluded name came first and a name of the
\* same file that is not excluded came later.
C10_Witness ==
    \E w \in DOMAIN th :
        LET t == th[w]
        IN /\ Returned(t)
           /\ \E k, m \in Stats(t.log) :
                 /\ k < m
                 /\ t.log[k].excluded /\ t.log[k].first
                 /\ t.log[m].dev = t.log[k].dev /\ t.log[m].ino = t.log[k].ino
                 /\ ~t.log[m].excluded /\ ~t.log[m].counted

====
